---- MODULE Spec2Model ----
(***************************************************************************)
(* SublimeText/TableEditor: the Multi-Markdown and Pandoc table syntaxes.  *)
(*                                                                         *)
(* Four state machines share the module:                                   *)
(*   Spec        the table drivers (insert_single_hline, insert_double_    *)
(*               hline, insert_hline_and_move) on a table of typed rows    *)
(*   SpecChain   insert_hline_and_move applied again and again at the      *)
(*               position the previous call returned                       *)
(*   SpecColumn  one alignment column: built from a tokenized cell,        *)
(*               given a width by pack(), rendered, parsed again           *)
(*   SpecRow     PandocTableParser.create_row on one tokenized line        *)
(* Text is a sequence of one-character strings.                            *)
(***************************************************************************)
EXTENDS Integers, Sequences, FiniteSets, TLC

\* ------------------------------------------------------------------ bounds
\* longest cell text of a single alignment column (SpecColumn)
MaxLen == 5
\* longest right border text of a Multi-Markdown cell ("|", "||", "|||")
MaxBorder == 3
\* widest col_len pack() hands out
MaxColLen == 6
\* longest cell text and most cells of a tokenized line (SpecRow)
MaxRowCellLen == 2
MaxCells == 2
\* rows and columns of a parsed table, rows of an edited table (Spec, SpecChain)
MaxInitRows == 3
MaxCols == 2
MaxRows == 5
\* rows of a table under chained insert_hline_and_move (SpecChain)
MaxChainRows == 9

\* the characters of a cell: colon, dash, equals, whitespace, any other
Alphabet == {":", "-", "=", " ", "a"}

Texts(n) == UNION {[1..k -> Alphabet] : k \in 0..n}

VARIABLES
    syntax,      \* TableSyntax name: "Multi Markdown" or "Pandoc"
    rows,        \* table.rows
    table_pos,   \* the cursor: the TablePos the last call returned
    last,        \* the last driver call: its name, its arguments, the rows before
    line_cell,   \* the tokenized cell a column is built from
    column,      \* the alignment column
    rendered,    \* what column.render() returned
    ref,         \* the column and its text at the previous render
    cpc,         \* where the column is: cell, column, packed, rendered, IndexError
    str_cols,    \* line.str_cols() of the line create_row classifies
    row          \* the row create_row returned

vars == <<syntax, rows, table_pos, last, line_cell, column, rendered, ref, cpc,
          str_cols, row>>

driverVars == <<rows, table_pos, last>>
columnVars == <<line_cell, column, rendered, ref, cpc>>
rowVars == <<str_cols, row>>

MultiMarkdown == "Multi Markdown"
Pandoc == "Pandoc"

\* ------------------------------------------------------------ python text
WS == {" "}

RECURSIVE lstrip(_)
lstrip(s) ==
    IF Len(s) > 0 /\ s[1] \in WS THEN lstrip(Tail(s)) ELSE s

RECURSIVE rstrip(_)
rstrip(s) ==
    IF Len(s) > 0 /\ s[Len(s)] \in WS THEN rstrip(SubSeq(s, 1, Len(s) - 1)) ELSE s

strip(s) == rstrip(lstrip(s))

count(s, ch) == Cardinality({i \in 1..Len(s) : s[i] = ch})

startswith(s, ch) == Len(s) > 0 /\ s[1] = ch

endswith(s, ch) == Len(s) > 0 /\ s[Len(s)] = ch

contains(s, ch) == \E i \in 1..Len(s) : s[i] = ch

\* ch * n; a count below 1 gives the empty text
Repeat(ch, n) == [i \in 1..n |-> ch]

\* re.match(pattern + "$", s): a pattern is a sequence of items, each a character
\* class c with a quantifier q: "?" "+" "*".  Match(pat, i, s, j): the items from
\* i on match s from character j to its end.
RECURSIVE Match(_, _, _, _)
Match(pat, i, s, j) ==
    IF i > Len(pat) THEN j > Len(s)
    ELSE LET here == j <= Len(s) /\ s[j] \in pat[i].c
         IN  CASE pat[i].q = "?" ->
                    (here /\ Match(pat, i + 1, s, j + 1)) \/ Match(pat, i + 1, s, j)
               [] pat[i].q = "*" ->
                    (here /\ Match(pat, i, s, j + 1)) \/ Match(pat, i + 1, s, j)
               [] pat[i].q = "+" ->
                    here /\ (Match(pat, i, s, j + 1) \/ Match(pat, i + 1, s, j + 1))

re_match(pat, s) == Match(pat, 1, s, 1)

SeparatorPattern(border) ==
    << [c |-> WS, q |-> "*"], [c |-> {":"}, q |-> "?"], [c |-> {border}, q |-> "+"],
       [c |-> {":"}, q |-> "?"], [c |-> WS, q |-> "*"] >>

\* MultiMarkdownAlignColumn.PATTERN  ^\s*([:]?[-]+[:]?)\s*$
MMD_PATTERN == SeparatorPattern("-")
\* ^\s*:?[\-]+:?\s*$
PandocSinglePattern == SeparatorPattern("-")
\* ^\s*:?[=]+:?\s*$
PandocDoublePattern == SeparatorPattern("=")

\* ------------------------------------------------------ tbase.Column tags
ALIGN_LEFT == "left"
ALIGN_RIGHT == "right"
ALIGN_CENTER == "center"
ALIGN_NONE == "None"

\* tbase.Column.__init__: colspan 1, col_len 0, no pseudo columns
BaseColumn ==
    [align_follow |-> ALIGN_NONE, separator |-> <<>>, colspan |-> 1, col_len |-> 0,
     pseudo_columns |-> <<>>]

NoCell == [text |-> <<>>, right_border_len |-> 0]
NoRef == [set |-> FALSE, text |-> <<>>, column |-> BaseColumn]

\* ------------------------------------------- MultiMarkdownAlignColumn
\* __init__: the alignment of the trimmed text; col[0] of an empty text raises
MMD_raises(data) == count(strip(data), ":") # 2 /\ Len(strip(data)) = 0

\* mutant: the trailing colon is tested before the leading one
MMD_align_follow_swapped(data) ==
    LET col == strip(data)
    IN  IF count(col, ":") = 2 THEN ALIGN_CENTER
        ELSE IF col[Len(col)] = ":" THEN ALIGN_LEFT
        ELSE IF col[1] = ":" THEN ALIGN_RIGHT
        ELSE ALIGN_NONE

\* mutant: Center by the first and last character instead of the colon count
MMD_align_follow_ends(data) ==
    LET col == strip(data)
    IN  IF col[1] = ":" /\ col[Len(col)] = ":" THEN ALIGN_CENTER
        ELSE IF col[1] = ":" THEN ALIGN_LEFT
        ELSE IF col[Len(col)] = ":" THEN ALIGN_RIGHT
        ELSE ALIGN_NONE

MMD_align_follow(data) ==
    LET col == strip(data)
    IN  IF count(col, ":") = 2 THEN ALIGN_CENTER
        ELSE IF col[1] = ":" THEN ALIGN_LEFT
        ELSE IF col[Len(col)] = ":" THEN ALIGN_RIGHT
        ELSE ALIGN_NONE

MMD_AlignColumn(data) == [BaseColumn EXCEPT !.align_follow = MMD_align_follow(data)]

MMD_total_min_len(col) == 5 + col.colspan - 1

\* mutant: the quotient is rounded down
MMD_min_len_floor(col) == (5 + col.colspan - 1) \div col.colspan

\* int(math.ceil(total_min_len / colspan))
ceil_div(a, b) == IF a % b = 0 THEN a \div b ELSE (a \div b) + 1

MMD_min_len(col) == ceil_div(MMD_total_min_len(col), col.colspan)

RECURSIVE sum(_)
sum(s) == IF Len(s) = 0 THEN 0 ELSE s[1] + sum(Tail(s))

\* mutant: the span's border characters are not taken off again
MMD_total_col_len_with_borders(col) ==
    col.col_len + (col.colspan - 1) + sum(col.pseudo_columns)

MMD_total_col_len(col) ==
    (col.col_len + (col.colspan - 1) + sum(col.pseudo_columns)) - (col.colspan - 1)

\* mutant: lead and trail are exchanged
MMD_render_swapped(col) ==
    LET total_col_len == (col.col_len + (col.colspan - 1) + sum(col.pseudo_columns))
                             - (col.colspan - 1)
        lead == IF col.align_follow \in {ALIGN_CENTER, ALIGN_RIGHT} THEN ":" ELSE "-"
        trail == IF col.align_follow \in {ALIGN_CENTER, ALIGN_LEFT} THEN ":" ELSE "-"
    IN  <<" ", lead>> \o Repeat("-", total_col_len - 4) \o <<trail, " ">>

MMD_render(col) ==
    LET total_col_len == MMD_total_col_len(col)
        lead == IF col.align_follow \in {ALIGN_CENTER, ALIGN_LEFT} THEN ":" ELSE "-"
        trail == IF col.align_follow \in {ALIGN_CENTER, ALIGN_RIGHT} THEN ":" ELSE "-"
    IN  <<" ", lead>> \o Repeat("-", total_col_len - 4) \o <<trail, " ">>

\* MultiMarkdownTableParser.create_column: the row's column, its colspan from the
\* cell's right border
MMD_create_column(cell) ==
    LET c == MMD_AlignColumn(cell.text)
    IN  IF cell.right_border_len > 1
        THEN [c EXCEPT !.colspan = cell.right_border_len]
        ELSE c

\* ---------------------------------------------------- PandocAlignColumn
Pandoc_parse_alignment(sep) ==
    LET core == strip(sep)
    IN  IF startswith(core, ":") /\ endswith(core, ":") THEN ALIGN_CENTER
        ELSE IF startswith(core, ":") THEN ALIGN_LEFT
        ELSE IF endswith(core, ":") THEN ALIGN_RIGHT
        ELSE ALIGN_NONE

Pandoc_AlignColumn(sep) ==
    [BaseColumn EXCEPT !.separator = sep, !.align_follow = Pandoc_parse_alignment(sep)]

Pandoc_min_len(col) == 3

Pandoc_base_char(col) == IF contains(col.separator, "=") THEN "=" ELSE "-"

Pandoc_render(col) ==
    LET base_char == Pandoc_base_char(col)
        n == col.col_len
    IN  IF col.align_follow = ALIGN_CENTER
        THEN IF n <= 2 THEN Repeat(base_char, n)
             ELSE <<":">> \o Repeat(base_char, n - 2) \o <<":">>
        ELSE IF col.align_follow = ALIGN_LEFT
        THEN IF n <= 1 THEN Repeat(base_char, n)
             ELSE <<":">> \o Repeat(base_char, n - 1)
        ELSE IF col.align_follow = ALIGN_RIGHT
        THEN IF n <= 1 THEN Repeat(base_char, n)
             ELSE Repeat(base_char, n - 1) \o <<":">>
        ELSE Repeat(base_char, n)

\* PandocTableParser.create_column of a PandocAlignRow
Pandoc_create_column(cell) == Pandoc_AlignColumn(cell.text)

\* ------------------------------------------------- dispatch on the syntax
min_len(col) == IF syntax = MultiMarkdown THEN MMD_min_len(col) ELSE Pandoc_min_len(col)

render(col) == IF syntax = MultiMarkdown THEN MMD_render(col) ELSE Pandoc_render(col)

\* the width a column's text has to fill
assigned_width(col) ==
    IF syntax = MultiMarkdown THEN col.col_len + sum(col.pseudo_columns) ELSE col.col_len

\* Table.pack() on one column: col_len at least min_len(), and one pseudo column
\* for every further cell the column spans, each at least the master's min_len()
PackedColumns(col) ==
    {[col EXCEPT !.col_len = w, !.pseudo_columns = p] :
        w \in min_len(col)..MaxColLen,
        p \in [1..(col.colspan - 1) -> min_len(col)..MaxColLen]}

\* the right border a rendered column is written with: one "|" per spanned cell
BorderOf(col) == IF syntax = MultiMarkdown THEN col.colspan ELSE 1

\* --------------------------------------------------- SpecColumn: actions
IdleDriver ==
    /\ rows = <<>>
    /\ table_pos = [row_num |-> 0, field_num |-> 0]
    /\ last = [op |-> "none", row_num |-> 0, field_num |-> 0, before |-> <<>>]

IdleColumn ==
    /\ line_cell = NoCell
    /\ column = BaseColumn
    /\ rendered = <<>>
    /\ ref = NoRef
    /\ cpc = "idle"

IdleRow ==
    /\ str_cols = <<>>
    /\ row = "none"

InitColumn ==
    /\ syntax \in {MultiMarkdown, Pandoc}
    /\ line_cell \in [text : Texts(MaxLen),
                      right_border_len : IF syntax = MultiMarkdown THEN 0..MaxBorder ELSE {1}]
    /\ column = BaseColumn
    /\ rendered = <<>>
    /\ ref = NoRef
    /\ cpc = "cell"
    /\ IdleDriver
    /\ IdleRow

MMDCreateColumn ==
    /\ syntax = MultiMarkdown
    /\ cpc = "cell"
    /\ ~MMD_raises(line_cell.text)
    /\ column' = MMD_create_column(line_cell)
    /\ cpc' = "column"
    /\ UNCHANGED <<syntax, line_cell, rendered, ref, driverVars, rowVars>>

MMDCreateColumnRaises ==
    /\ syntax = MultiMarkdown
    /\ cpc = "cell"
    /\ MMD_raises(line_cell.text)
    /\ cpc' = "IndexError"
    /\ UNCHANGED <<syntax, line_cell, column, rendered, ref, driverVars, rowVars>>

PandocCreateColumn ==
    /\ syntax = Pandoc
    /\ cpc = "cell"
    /\ column' = Pandoc_create_column(line_cell)
    /\ cpc' = "column"
    /\ UNCHANGED <<syntax, line_cell, rendered, ref, driverVars, rowVars>>

\* pack(): the first time any width from min_len() up, afterwards the same widths
\* (the table's other rows have not changed); the tokenized cell is gone by now
PackColumn ==
    /\ cpc = "column"
    /\ IF ref.set
       THEN column' = [column EXCEPT !.col_len = ref.column.col_len,
                                     !.pseudo_columns = ref.column.pseudo_columns]
       ELSE column' \in PackedColumns(column)
    /\ line_cell' = NoCell
    /\ cpc' = "packed"
    /\ UNCHANGED <<syntax, rendered, ref, driverVars, rowVars>>

RenderColumn ==
    /\ cpc = "packed"
    /\ rendered' = render(column)
    /\ cpc' = "rendered"
    /\ UNCHANGED <<syntax, line_cell, column, ref, driverVars, rowVars>>

\* the rendered text is tokenized and parsed again
ReparseColumn ==
    /\ cpc = "rendered"
    /\ ref' = [set |-> TRUE, text |-> rendered, column |-> column]
    /\ line_cell' = [text |-> rendered, right_border_len |-> BorderOf(column)]
    /\ column' = BaseColumn
    /\ rendered' = <<>>
    /\ cpc' = "cell"
    /\ UNCHANGED <<syntax, driverVars, rowVars>>

NextColumn ==
    \/ MMDCreateColumn
    \/ MMDCreateColumnRaises
    \/ PandocCreateColumn
    \/ PackColumn
    \/ RenderColumn
    \/ ReparseColumn

SpecColumn == InitColumn /\ [][NextColumn]_vars

\* ------------------------------------------------------------------ rows
\* a row: its class, its separator character, the line it was parsed from (0 for a
\* row an edit created) and how many columns it holds
NewRow(kind, sep) == [kind |-> kind, separator |-> sep, id |-> 0, ncols |-> 0]

DataRow == NewRow("DataRow", "")
SeparatorRow(sep) == NewRow("SeparatorRow", sep)
PandocAlignRow(sep) == NewRow("PandocAlignRow", sep)
MultiMarkdownAlignRow == NewRow("MultiMarkdownAlignRow", "-")
NoRow == NewRow("none", "")

\* tbase.DataRow.is_separator / tborder.SeparatorRow.is_separator
Base_is_separator(r) == r.kind = "SeparatorRow"

is_separator(r) ==
    IF r.kind \in {"MultiMarkdownAlignRow", "PandocAlignRow"} THEN TRUE
    ELSE Base_is_separator(r)

\* ----------------------------------------------------- PandocTableParser
Pandoc_is_single_row_separator_with_align(cols) ==
    IF Len(cols) = 0 THEN FALSE
    ELSE \A i \in 1..Len(cols) : re_match(PandocSinglePattern, cols[i])

Pandoc_is_double_row_separator_with_align(cols) ==
    IF Len(cols) = 0 THEN FALSE
    ELSE \A i \in 1..Len(cols) : re_match(PandocDoublePattern, cols[i])

\* mutant: only the first cell is searched for a colon
Pandoc_has_alignment_markers_first(cols) ==
    Len(cols) > 0 /\ contains(cols[1], ":")

Pandoc_has_alignment_markers(cols) ==
    \E i \in 1..Len(cols) : contains(cols[i], ":")

\* BorderTableParser.create_data_row
Pandoc_create_data_row(cols) == DataRow

Pandoc_create_row(cols) ==
    IF Pandoc_is_single_row_separator_with_align(cols)
    THEN IF Pandoc_has_alignment_markers(cols) THEN PandocAlignRow("-")
         ELSE SeparatorRow("-")
    ELSE IF Pandoc_is_double_row_separator_with_align(cols)
    THEN IF Pandoc_has_alignment_markers(cols) THEN PandocAlignRow("=")
         ELSE SeparatorRow("=")
    ELSE Pandoc_create_data_row(cols)

\* ------------------------------------------------------ SpecRow: actions
\* the cells of a tokenized line: texts of colons, border characters and blanks (a
\* cell of other characters is a data cell, as the empty cell and ':' alone are)
RowAlphabet == {":", "-", "=", " "}

RowTexts == UNION {[1..n -> RowAlphabet] : n \in 0..MaxRowCellLen}

\* the tokenized lines of k cells
Lines(k) == [1..k -> RowTexts]

InitRow ==
    /\ syntax = Pandoc
    /\ \E k \in 0..MaxCells : str_cols \in Lines(k)
    /\ row = NoRow
    /\ IdleDriver
    /\ IdleColumn

PandocCreateRow ==
    /\ row = NoRow
    /\ row' = Pandoc_create_row(str_cols)
    /\ UNCHANGED <<syntax, str_cols, driverVars, columnVars>>

NextRow == PandocCreateRow

SpecRow == InitRow /\ [][NextRow]_vars

\* ------------------------------------------------------------ the table
\* list.insert(i, x), i counted from 0
list_insert(s, i, x) ==
    IF i >= Len(s) THEN Append(s, x)
    ELSE SubSeq(s, 1, i) \o <<x>> \o SubSeq(s, i + 1, Len(s))

Max(S) == CHOOSE m \in S : \A n \in S : n <= m

\* Table.pack(): every row is brought to the table's column count
pack(rs) ==
    IF Len(rs) = 0 THEN rs
    ELSE LET column_count == Max({rs[i].ncols : i \in 1..Len(rs)})
         IN  [i \in 1..Len(rs) |-> [rs[i] EXCEPT !.ncols = column_count]]

\* Table.insert_empty_row(i): an empty DataRow at index i, then pack()
insert_empty_row(rs, i) == pack(list_insert(rs, i, DataRow))

TablePos(row_num, field_num) == [row_num |-> row_num, field_num |-> field_num]

\* ------------------------------------------- MultiMarkdownTableDriver
\* mutant: the separator is inserted at the cursor row, not after it
MMD_editor_insert_single_hline_before(rs, p) ==
    [rows |-> pack(list_insert(rs, p.row_num, MultiMarkdownAlignRow)),
     pos |-> TablePos(p.row_num, p.field_num)]

\* each returns the table's rows after the call and the TablePos returned
MMD_editor_insert_single_hline(rs, p) ==
    [rows |-> pack(list_insert(rs, p.row_num + 1, MultiMarkdownAlignRow)),
     pos |-> TablePos(p.row_num, p.field_num)]

\* mutant: the position returned is the separator's
MMD_editor_insert_hline_and_move_short(rs, p) ==
    LET t1 == pack(list_insert(rs, p.row_num + 1, MultiMarkdownAlignRow))
        t2 == IF p.row_num + 2 < Len(t1)
              THEN IF is_separator(t1[p.row_num + 3])
                   THEN insert_empty_row(t1, p.row_num + 2)
                   ELSE t1
              ELSE insert_empty_row(t1, p.row_num + 2)
    IN  [rows |-> t2, pos |-> TablePos(p.row_num + 1, 0)]

\* mutant: an empty row is added only at the end of the table
MMD_editor_insert_hline_and_move_end_only(rs, p) ==
    LET t1 == pack(list_insert(rs, p.row_num + 1, MultiMarkdownAlignRow))
        t2 == IF p.row_num + 2 < Len(t1)
              THEN t1
              ELSE insert_empty_row(t1, p.row_num + 2)
    IN  [rows |-> t2, pos |-> TablePos(p.row_num + 2, 0)]

MMD_editor_insert_hline_and_move(rs, p) ==
    LET t1 == pack(list_insert(rs, p.row_num + 1, MultiMarkdownAlignRow))
        t2 == IF p.row_num + 2 < Len(t1)
              THEN IF is_separator(t1[p.row_num + 3])
                   THEN insert_empty_row(t1, p.row_num + 2)
                   ELSE t1
              ELSE insert_empty_row(t1, p.row_num + 2)
    IN  [rows |-> t2, pos |-> TablePos(p.row_num + 2, 0)]

\* --------------------------------------------------- PandocTableDriver
Pandoc_has_alignment(rs) == \E i \in 1..Len(rs) : rs[i].kind = "PandocAlignRow"

Pandoc_editor_insert_single_hline(rs, p) ==
    LET has_alignment == Pandoc_has_alignment(rs)
        new == IF has_alignment THEN PandocAlignRow("-") ELSE SeparatorRow("-")
    IN  [rows |-> pack(list_insert(rs, p.row_num + 1, new)),
         pos |-> TablePos(p.row_num, p.field_num)]

\* mutant: the existing rows are not looked at
Pandoc_editor_insert_double_hline_plain(rs, p) ==
    [rows |-> pack(list_insert(rs, p.row_num + 1, SeparatorRow("="))),
     pos |-> TablePos(p.row_num, p.field_num)]

Pandoc_editor_insert_double_hline(rs, p) ==
    LET has_alignment == Pandoc_has_alignment(rs)
        new == IF has_alignment THEN PandocAlignRow("=") ELSE SeparatorRow("=")
    IN  [rows |-> pack(list_insert(rs, p.row_num + 1, new)),
         pos |-> TablePos(p.row_num, p.field_num)]

\* --------------------------------------------------------- Spec: actions
\* the rows a parser gives for the lines of a table: line i becomes row i, every
\* row packed to the same column count
RowKinds ==
    IF syntax = MultiMarkdown THEN {DataRow, MultiMarkdownAlignRow}
    ELSE {DataRow, SeparatorRow("-"), SeparatorRow("="), PandocAlignRow("-"),
          PandocAlignRow("=")}

ParsedTables ==
    {[i \in 1..n |-> [k[i] EXCEPT !.id = i, !.ncols = c]] :
        n \in 1..MaxInitRows, c \in 1..MaxCols, k \in [1..MaxInitRows -> RowKinds]}

\* the in-bounds positions: a row of the table, a field of that row
Positions(rs) ==
    {TablePos(r, f) : r \in 0..(Len(rs) - 1), f \in 0..(rs[1].ncols - 1)}

NoCall == [op |-> "none", row_num |-> 0, field_num |-> 0, before |-> <<>>]

Call(op, p) ==
    [op |-> op, row_num |-> p.row_num, field_num |-> p.field_num, before |-> rows]

Init ==
    /\ syntax \in {MultiMarkdown, Pandoc}
    /\ rows \in ParsedTables
    /\ table_pos = TablePos(0, 0)
    /\ last = NoCall
    /\ IdleColumn
    /\ IdleRow

Apply(op, p, result) ==
    /\ rows' = result.rows
    /\ table_pos' = result.pos
    /\ last' = Call(op, p)
    /\ UNCHANGED <<syntax, columnVars, rowVars>>

MMDInsertSingleHline(p) ==
    /\ syntax = MultiMarkdown
    /\ Len(rows) + 1 <= MaxRows
    /\ Apply("insert_single_hline", p, MMD_editor_insert_single_hline(rows, p))

MMDInsertHlineAndMove(p) ==
    /\ syntax = MultiMarkdown
    /\ Len(rows) + 2 <= MaxRows
    /\ Apply("insert_hline_and_move", p, MMD_editor_insert_hline_and_move(rows, p))

PandocInsertSingleHline(p) ==
    /\ syntax = Pandoc
    /\ Len(rows) + 1 <= MaxRows
    /\ Apply("insert_single_hline", p, Pandoc_editor_insert_single_hline(rows, p))

PandocInsertDoubleHline(p) ==
    /\ syntax = Pandoc
    /\ Len(rows) + 1 <= MaxRows
    /\ Apply("insert_double_hline", p, Pandoc_editor_insert_double_hline(rows, p))

Next ==
    \/ \E p \in Positions(rows) : MMDInsertSingleHline(p)
    \/ \E p \in Positions(rows) : MMDInsertHlineAndMove(p)
    \/ \E p \in Positions(rows) : PandocInsertSingleHline(p)
    \/ \E p \in Positions(rows) : PandocInsertDoubleHline(p)

Spec == Init /\ [][Next]_vars

\* ---------------------------------------------------- SpecChain: actions
NoAdjacentSeparators(rs) ==
    \A i \in 1..(Len(rs) - 1) : ~(is_separator(rs[i]) /\ is_separator(rs[i + 1]))

InitChain ==
    /\ syntax = MultiMarkdown
    /\ rows \in ParsedTables
    /\ NoAdjacentSeparators(rows)
    /\ table_pos \in Positions(rows)
    /\ ~is_separator(rows[table_pos.row_num + 1])
    /\ last = NoCall
    /\ IdleColumn
    /\ IdleRow

\* the next call is made at the position the previous one returned
ChainInsertHlineAndMove ==
    /\ Len(rows) + 2 <= MaxChainRows
    /\ Apply("insert_hline_and_move", table_pos,
             MMD_editor_insert_hline_and_move(rows, table_pos))

NextChain == ChainInsertHlineAndMove

SpecChain == InitChain /\ [][NextChain]_vars

\* ------------------------------------------------------- claims: columns
\* the dialect's pure-separator pattern matches the text
IsSeparatorCell(t) ==
    IF syntax = MultiMarkdown THEN re_match(MMD_PATTERN, t)
    ELSE re_match(PandocSinglePattern, t) \/ re_match(PandocDoublePattern, t)

\* the alignment a leading and a trailing colon of the trimmed text stand for
ColonAlign(t) ==
    LET core == strip(t)
        lead == Len(core) > 0 /\ core[1] = ":"
        trail == Len(core) > 0 /\ core[Len(core)] = ":"
    IN  CASE lead /\ trail -> ALIGN_CENTER
          [] lead /\ ~trail -> ALIGN_LEFT
          [] ~lead /\ trail -> ALIGN_RIGHT
          [] OTHER -> ALIGN_NONE

\* C3: a column built from a text matching the dialect's pure-separator pattern has
\* align_follow Center / Left / Right / None by the leading and trailing colon of
\* the trimmed text, and on such a text the Multi-Markdown colon count and the
\* Pandoc startswith/endswith rule agree.
C3_AlignmentInference ==
    (cpc = "column" /\ IsSeparatorCell(line_cell.text)) =>
        /\ column.align_follow = ColonAlign(line_cell.text)
        /\ MMD_align_follow(line_cell.text) = Pandoc_parse_alignment(line_cell.text)

C3_Witness ==
    /\ cpc = "column"
    /\ syntax = MultiMarkdown
    /\ line_cell.text = <<":", "-", "-", "-", ":">>
    /\ column.align_follow = ALIGN_CENTER

\* C4: the parser gives a Multi-Markdown column the colspan len(right_border_text)
\* when that is above 1 and leaves 1 otherwise; total_min_len() is 5 + c - 1 and
\* min_len() is its quotient by c rounded up: 5 for c = 1, 3 for c = 2, and
\* min_len() * c >= total_min_len().
C4_Colspan ==
    (cpc = "column" /\ syntax = MultiMarkdown) =>
        LET c == column.colspan
            b == line_cell.right_border_len
        IN  /\ c = (IF b > 1 THEN b ELSE 1)
            /\ MMD_total_min_len(column) = 5 + c - 1
            /\ MMD_min_len(column) * c >= 5 + c - 1
            /\ (MMD_min_len(column) - 1) * c < 5 + c - 1
            /\ (c = 1 => MMD_min_len(column) = 5)
            /\ (c = 2 => MMD_min_len(column) = 3)

C4_Witness ==
    /\ cpc = "column"
    /\ syntax = MultiMarkdown
    /\ line_cell.right_border_len = 2
    /\ column.colspan = 2
    /\ MMD_min_len(column) = 3

\* C7: the text render() returns is exactly as long as the width the column was
\* assigned; a Pandoc column's fill is col_len - 2 (Center), col_len - 1 (Left,
\* Right) or col_len (None) border characters, a Multi-Markdown column's w - 4
\* dashes between ' ' + lead and trail + ' '.
C7_RenderedWidth ==
    cpc = "rendered" =>
        /\ Len(rendered) = assigned_width(column)
        /\ syntax = Pandoc =>
            count(rendered, Pandoc_base_char(column)) =
                (CASE column.align_follow = ALIGN_CENTER -> column.col_len - 2
                   [] column.align_follow \in {ALIGN_LEFT, ALIGN_RIGHT} -> column.col_len - 1
                   [] OTHER -> column.col_len)
        /\ syntax = MultiMarkdown =>
            /\ rendered[1] = " " /\ rendered[Len(rendered)] = " "
            /\ SubSeq(rendered, 3, Len(rendered) - 2) =
                   Repeat("-", assigned_width(column) - 4)

C7_Witness ==
    /\ cpc = "rendered"
    /\ syntax = MultiMarkdown
    /\ column.colspan = 2
    /\ column.align_follow = ALIGN_CENTER
    /\ Len(rendered) = column.col_len + column.pseudo_columns[1]

\* C8: a rendered alignment column matches the dialect's pure-separator pattern,
\* the column parsed from it has the same align_follow (for Pandoc the same border
\* character), and rendered at the same width it gives the same text again.
C8_RenderParseIdempotent ==
    /\ cpc = "rendered" =>
        IF syntax = MultiMarkdown THEN re_match(MMD_PATTERN, rendered)
        ELSE IF Pandoc_base_char(column) = "=" THEN re_match(PandocDoublePattern, rendered)
        ELSE re_match(PandocSinglePattern, rendered)
    /\ ref.set => cpc # "IndexError"
    /\ (ref.set /\ cpc \in {"column", "packed", "rendered"}) =>
        /\ column.align_follow = ref.column.align_follow
        /\ syntax = Pandoc => Pandoc_base_char(column) = Pandoc_base_char(ref.column)
    /\ (ref.set /\ cpc = "rendered") => rendered = ref.text

C8_Witness ==
    /\ ref.set
    /\ cpc = "rendered"
    /\ syntax = Pandoc
    /\ column.align_follow = ALIGN_CENTER
    /\ rendered = <<":", "=", "=", ":">>

\* C9 as stated: a Multi-Markdown column built from ':-:-:' or from '::' is Center.
C9_Original ==
    (cpc = "column" /\ syntax = MultiMarkdown
        /\ line_cell.text \in {<<":", "-", ":", "-", ":">>, <<":", ":">>}) =>
        column.align_follow = ALIGN_CENTER

\* C9 amended: Center is given exactly when the trimmed text holds two colons,
\* wherever they are; so '::' is Center, and ':-:-:', which holds three, is Left.
C9_ColonCount ==
    (cpc = "column" /\ syntax = MultiMarkdown) =>
        /\ column.align_follow = ALIGN_CENTER <=> count(strip(line_cell.text), ":") = 2
        /\ line_cell.text = <<":", ":">> => column.align_follow = ALIGN_CENTER
        /\ line_cell.text = <<":", "-", ":", "-", ":">> => column.align_follow = ALIGN_LEFT

C9_Witness ==
    /\ cpc = "column"
    /\ syntax = MultiMarkdown
    /\ line_cell.text = <<":", "-", ":", "-", ":">>
    /\ column.align_follow = ALIGN_LEFT

\* ------------------------------------------------------- claims: drivers
\* C1: insert_single_hline (and Pandoc insert_double_hline) at an in-bounds position
\* puts one new separator row at index row_num + 1: the table has one row more, the
\* rows up to row_num stay in place, the later ones move down by one, and the
\* position returned is (row_num, field_num).
C1_InsertSingleHline ==
    last.op \in {"insert_single_hline", "insert_double_hline"} =>
        LET r == last.row_num
            b == last.before
        IN  /\ Len(rows) = Len(b) + 1
            /\ is_separator(rows[r + 2])
            /\ rows[r + 2].id = 0
            /\ \A i \in 1..(r + 1) : rows[i] = b[i]
            /\ \A i \in (r + 2)..Len(b) : rows[i + 1] = b[i]
            /\ table_pos = TablePos(r, last.field_num)

C1_Witness ==
    /\ last.op = "insert_single_hline"
    /\ Len(last.before) = 3
    /\ last.row_num = 1
    /\ last.field_num = 1
    /\ Len(rows) = 4
    /\ is_separator(rows[3])
    /\ table_pos = TablePos(1, 1)

\* the call found no row after the new separator, or a separator there
C2_NeedsEmptyRow ==
    \/ last.row_num + 1 = Len(last.before)
    \/ is_separator(last.before[last.row_num + 2])

\* C2: Multi-Markdown insert_hline_and_move puts an alignment row at row_num + 1 and
\* returns (row_num + 2, 0), where a data row is; an empty data row is inserted there
\* exactly when the new separator was the last row or was followed by a separator, so
\* the table grows by two rows then and by one otherwise.
C2_InsertHlineAndMove ==
    last.op = "insert_hline_and_move" =>
        LET r == last.row_num
            b == last.before
        IN  /\ rows[r + 2].kind = "MultiMarkdownAlignRow"
            /\ rows[r + 2].id = 0
            /\ \A i \in 1..(r + 1) : rows[i] = b[i]
            /\ table_pos = TablePos(r + 2, 0)
            /\ r + 3 <= Len(rows)
            /\ ~is_separator(rows[r + 3])
            /\ IF C2_NeedsEmptyRow
               THEN /\ Len(rows) = Len(b) + 2
                    /\ rows[r + 3].kind = "DataRow" /\ rows[r + 3].id = 0
                    /\ \A i \in (r + 2)..Len(b) : rows[i + 2] = b[i]
               ELSE /\ Len(rows) = Len(b) + 1
                    /\ \A i \in (r + 2)..Len(b) : rows[i + 1] = b[i]

C2_Witness ==
    /\ last.op = "insert_hline_and_move"
    /\ last.row_num + 1 = Len(last.before)
    /\ Len(rows) = Len(last.before) + 2
    /\ rows[Len(rows)].kind = "DataRow"
    /\ table_pos = TablePos(Len(last.before) + 1, 0)

\* C6: a Pandoc insert_single_hline / insert_double_hline inserts a PandocAlignRow
\* (separator '-' / '=') when the table held a PandocAlignRow as the call began and a
\* plain SeparatorRow when it held none; so a table that holds a PandocAlignRow holds
\* one after every later insertion, and one that holds none never gains one.
C6_AlignmentPreserved ==
    [][syntax = Pandoc =>
        LET new == rows'[last'.row_num + 2]
            sep == IF last'.op = "insert_single_hline" THEN "-" ELSE "="
        IN  /\ last'.op \in {"insert_single_hline", "insert_double_hline"}
            /\ new.separator = sep
            /\ new.kind = (IF Pandoc_has_alignment(rows) THEN "PandocAlignRow"
                           ELSE "SeparatorRow")
            /\ Pandoc_has_alignment(rows') = Pandoc_has_alignment(rows)]_vars

C6_Witness ==
    /\ syntax = Pandoc
    /\ last.op = "insert_double_hline"
    /\ Pandoc_has_alignment(last.before)
    /\ rows[last.row_num + 2].kind = "PandocAlignRow"
    /\ rows[last.row_num + 2].separator = "="
    /\ rows[last.row_num + 2].id = 0

\* C10: under chained insert_hline_and_move, from a table without two consecutive
\* separators and a cursor on a data row, no table has two consecutive separators,
\* the cursor is an in-bounds row index and its row is a data row; the separator a
\* call inserted is directly after the row the cursor was on.
C10_NoAdjacentSeparators ==
    /\ NoAdjacentSeparators(rows)
    /\ table_pos.row_num \in 0..(Len(rows) - 1)
    /\ ~is_separator(rows[table_pos.row_num + 1])
    /\ last.op # "none" =>
        /\ is_separator(rows[last.row_num + 2])
        /\ rows[last.row_num + 1] = last.before[last.row_num + 1]

C10_Witness ==
    /\ last.op = "insert_hline_and_move"
    /\ \E i \in 1..Len(last.before) : last.before[i].id = 0
    /\ last.row_num + 1 < Len(last.before)
    /\ is_separator(last.before[last.row_num + 2])
    /\ Len(rows) = Len(last.before) + 2

\* ---------------------------------------------------------- claims: rows
AllMatch(pat) == \A i \in 1..Len(str_cols) : re_match(pat, str_cols[i])
SomeColon == \E i \in 1..Len(str_cols) : \E j \in 1..Len(str_cols[i]) : str_cols[i][j] = ":"

\* C5: create_row gives a PandocAlignRow '-' iff there are cells, every cell matches
\* the single-border pattern and some cell holds a colon; a SeparatorRow '-' iff
\* there are cells, every cell matches it and none holds a colon; the same with '='
\* for the double-border pattern; and a data row in every other case.
C5_RowClassification ==
    row # NoRow =>
        LET some == Len(str_cols) > 0
            single == some /\ AllMatch(PandocSinglePattern)
            double == some /\ AllMatch(PandocDoublePattern)
        IN  /\ row = PandocAlignRow("-") <=> (single /\ SomeColon)
            /\ row = SeparatorRow("-") <=> (single /\ ~SomeColon)
            /\ row = PandocAlignRow("=") <=> (double /\ SomeColon)
            /\ row = SeparatorRow("=") <=> (double /\ ~SomeColon)
            /\ row = DataRow <=> (~single /\ ~double)
            /\ row \in {PandocAlignRow("-"), SeparatorRow("-"), PandocAlignRow("="),
                        SeparatorRow("="), DataRow}

C5_Witness ==
    /\ str_cols = << <<"-", "-">>, <<"-", "-">> >>
    /\ row = SeparatorRow("-")

====
